---- MODULE Spec2Model ----
(***************************************************************************)
(* Model of ratcave_utils/arena_scanner.py: the scan_arena command and the *)
(* GridScanWindow it opens.  One action per statement group of scan_arena  *)
(* and per scheduled callback of the window.  File names are sequences of  *)
(* one-character strings; coordinates are exact rationals, an array being  *)
(* a record [den, v] that stands for the vectors v[i] / den.               *)
(***************************************************************************)
EXTENDS Integers, Sequences, FiniteSets, TLC

(* ---------------------------------------------------------------------- *)
(* Bounds of the model                                                     *)
(* ---------------------------------------------------------------------- *)
MaxNameLen == 5
MaxMarkers == 3
MaxCoord == 1
MaxVerts == 4
MaxFaces == 1
MaxExtraPoints == 0

(* ---------------------------------------------------------------------- *)
(* Program constants                                                       *)
(* ---------------------------------------------------------------------- *)
LinspaceN == 40
ResetCycles == 3
MinPoints == 100
MaxAttempts == 300
PivotRtolInv == 1000
DefaultRtolInv == 100000
AtolInv == 100000000

ObjExt == <<".", "o", "b", "j">>
ScannedSuffix == <<"_", "s", "c", "a", "n", "n", "e", "d", ".", "t", "t", "p">>

(* ---------------------------------------------------------------------- *)
(* os.path.splitext and the output-name rule                               *)
(* ---------------------------------------------------------------------- *)
RFind(p, c) ==
  LET hits == {i \in 1..Len(p) : p[i] = c}
  IN  IF hits = {} THEN 0 ELSE CHOOSE i \in hits : \A j \in hits : j <= i

\* genericpath._splitext: the extension starts at the last dot of the last
\* path component, unless only dots precede it in that component.
SplitDot(p) ==
  LET sepIndex == RFind(p, "/")
      dotIndex == RFind(p, ".")
  IN  IF /\ dotIndex > sepIndex
         /\ \E i \in (sepIndex + 1)..(dotIndex - 1) : p[i] # "."
      THEN dotIndex
      ELSE Len(p) + 1

splitext(p) ==
  <<SubSeq(p, 1, SplitDot(p) - 1), SubSeq(p, SplitDot(p), Len(p))>>

\* line 90: the name scan_arena goes on with
ResolveName(name) ==
  IF splitext(name)[2] = <<>> THEN name \o ObjExt ELSE name

\* line 91: the assertion's condition
ExtensionOk(name) == splitext(name)[2] = ObjExt

EndsWith(p, s) ==
  /\ Len(p) >= Len(s)
  /\ SubSeq(p, Len(p) - Len(s) + 1, Len(p)) = s

(* ---------------------------------------------------------------------- *)
(* numpy arithmetic on exact rationals                                     *)
(* ---------------------------------------------------------------------- *)
Abs(x) == IF x < 0 THEN -x ELSE x

VAdd(a, b) == <<a[1] + b[1], a[2] + b[2], a[3] + b[3]>>
VSub(a, b) == <<a[1] - b[1], a[2] - b[2], a[3] - b[3]>>
VScale(k, a) == <<k * a[1], k * a[2], k * a[3]>>

\* an array of integer vectors, as numpy holds it after np.array(...)
Arr(v) == [den |-> 1, v |-> v]

\* face_indices.flatten()
RECURSIVE flatten(_)
flatten(tris) ==
  IF tris = <<>> THEN <<>> ELSE Head(tris) \o flatten(Tail(tris))

\* the sum of the rows v[idx] (0-based indices, one term per occurrence)
RECURSIVE SumRows(_, _)
SumRows(v, idx) ==
  IF idx = <<>> THEN <<0, 0, 0>>
  ELSE VAdd(v[Head(idx) + 1], SumRows(v, Tail(idx)))

\* np.mean(vertices, axis=0): every vertex once, whatever the faces use
MeanOverVertices(verts, tris) ==
  [den |-> verts.den * Len(verts.v),
   v   |-> SumRows(verts.v, [i \in 1..Len(verts.v) |-> i - 1])]

\* line 154: np.mean(vertices[face_indices.flatten(), :], axis=0)
MeanOverFaces(verts, tris) ==
  [den |-> verts.den * Len(flatten(tris)),
   v   |-> SumRows(verts.v, flatten(tris))]

\* lines 157-158: arr -= m, the vector m taken from every row
Subtract(arr, m) ==
  [den |-> arr.den * m.den,
   v   |-> [i \in 1..Len(arr.v) |->
              VSub(VScale(m.den, arr.v[i]), VScale(arr.den, m.v))]]

\* np.isclose(a, b, rtol=1/rinv, atol=1e-8) for the rationals an/ad, bn/bd:
\* |a - b| <= atol + rtol * |b|, both sides multiplied by rinv * ad * bd
CloseNum(an, ad, bn, bd, rinv) ==
  rinv * Abs(an * bd - bn * ad)
    <= ((ad * bd) \div (AtolInv \div rinv)) + Abs(bn) * ad

\* np.isclose(a, b, rtol).all() for two vectors [den, v]
AllClose(a, b, rinv) ==
  \A k \in 1..3 : CloseNum(a.v[k], a.den, b.v[k], b.den, rinv)

(* ---------------------------------------------------------------------- *)
(* The environment: markers, meshes, the tracked rigid body, the cameras   *)
(* ---------------------------------------------------------------------- *)
PointVal(k) == <<k, 1 - k, 2 * k>>
PointVals == {PointVal(k) : k \in 0..MaxCoord}

\* The markers the tracker reports, in the order it reports them: the
\* pattern repeated.  Stream gives the next n after `from` were delivered.
Pattern == <<PointVal(0), PointVal(1)>>
Patterns == {Pattern, <<PointVal(1), PointVal(0), PointVal(0)>>}
Stream(pattern, from, n) ==
  [i \in 1..n |-> pattern[((from + i - 1) % Len(pattern)) + 1]]

\* a strip (vi-1, vi, vi+1) in place of the fan
StripOf(loop) ==
  [i \in 1..(Len(loop) - 2) |-> <<loop[i], loop[i + 1], loop[i + 2]>>]

\* pointcloud.fan_triangulate: the fan (v0, vi, vi+1) of each face loop
FanOf(loop) ==
  [i \in 1..(Len(loop) - 2) |-> <<loop[1], loop[i + 1], loop[i + 2]>>]
RECURSIVE fan_triangulate(_)
fan_triangulate(faces) ==
  IF faces = <<>> THEN <<>>
  ELSE FanOf(Head(faces)) \o fan_triangulate(Tail(faces))

\* pointcloud.fan_triangulate fails fast on a face of fewer than 3 vertices
Triangulable(faces) == \A i \in 1..Len(faces) : Len(faces[i]) >= 3

\* What pointcloud.meshify_arena and pointcloud.face_index can return: a
\* vertex array, one normal per face and the faces as loops of 0-based
\* vertex indices.
Loops(n) ==
  {[i \in 1..k |-> s + i - 1] : s \in 0..(n - 3), k \in 3..n}
    \cap UNION {[1..k -> 0..(n - 1)] : k \in 3..n}
FaceLists(n) == UNION {[1..m -> Loops(n)] : m \in 1..MaxFaces}
MeshOf(verts, faces) ==
  [vertices |-> verts,
   normals  |-> [i \in 1..Len(faces) |-> <<0, 0, 1>>],
   faces    |-> faces]
AllMeshes ==
  UNION {{MeshOf(vs, fs) : vs \in [1..n -> PointVals], fs \in FaceLists(n)} :
           n \in 3..MaxVerts}
TriangleMesh ==
  MeshOf(<<PointVal(0), PointVal(1), PointVal(1)>>, <<<<0, 1, 2>>>>)
OrphanMesh ==
  MeshOf(<<PointVal(1), PointVal(0), PointVal(1), PointVal(0)>>,
         <<<<0, 1, 2>>>>)
SampleMeshes == {TriangleMesh, OrphanMesh}

\* Index lists of every length, the degenerate ones included: what the
\* triangulator can be handed if a boundary collapses
AnyLoops(n) ==
  UNION {{f \in [1..k -> 0..(n - 1)] :
            \A i, j \in 1..k : f[i] = f[j] => i = j} : k \in 0..n}
AnyFaceLists(n) == UNION {[1..m -> AnyLoops(n)] : m \in 1..MaxFaces}
LoopMeshes ==
  {MeshOf([i \in 1..MaxVerts |-> PointVal(i % 2)], fs) :
     fs \in AnyFaceLists(MaxVerts)}

\* Four vertices and one face that starts at any of them and goes round
RotatedLoops ==
  {[i \in 1..k |-> (s + i - 1) % 4] : s \in 0..3, k \in 3..4}
RotatedMeshes ==
  {MeshOf(<<PointVal(1), PointVal(0), PointVal(1), PointVal(0)>>, <<f>>) :
     f \in RotatedLoops}

\* the meshes a run's environment lets the reconstruction return
MeshesOf(kind) ==
  CASE kind = "all" -> AllMeshes
    [] kind = "sample" -> SampleMeshes
    [] kind = "orphan" -> {OrphanMesh}
    [] kind = "loops" -> LoopMeshes
    [] kind = "rotated" -> RotatedMeshes

\* The rigid body as Motive holds it
Zero3 == [den |-> 1, v |-> <<0, 0, 0>>]
MarkerMean == [den |-> 1, v |-> <<1, 2, 0>>]
ProjectLocations == {MarkerMean, [den |-> 1, v |-> <<0, 2, 0>>]}
ProjectRotations == {Zero3, [den |-> 1, v |-> <<0, 90, 0>>]}
ProjectBodies == {{"arena", "wand"}, {"wand"}}

\* What the body may report after arena.location = target: the target, a
\* value inside the tolerance, a value outside it, or the value it had.
Scaled(t, num, den) == [den |-> t.den * den, v |-> VScale(num, t.v)]
ReportedAfterSet(target, old) ==
  {target,
   Scaled(target, 2 * PivotRtolInv + 1, 2 * PivotRtolInv),
   Scaled(target, PivotRtolInv + 2, PivotRtolInv),
   old}

NumCams == 2
CamName(i) == IF i = 1 THEN "Prime 13" ELSE "Flex 13"
ProjectCam(i) ==
  [name |-> CamName(i), settings |-> "project", frame_rate |-> "project_rate",
   image_gain |-> "project_gain", filter_switch |-> FALSE]

\* The names the runs are given
NameChars == {".", "/", "o", "b", "j"}
AllNames == UNION {[1..n -> NameChars] : n \in 1..MaxNameLen}
SampleNames == {<<"o">>, <<"o", ".", "b">>}
ProjectName == <<"o", ".", "t", "t", "p">>

\* The project files a run can be given: a path of up to MaxNameLen
\* characters, then nothing, '.ttp' or '_scanned.ttp'
ProjectNames ==
  {root \o ending :
     root \in UNION {[1..n -> {"o", ".", "/"}] : n \in 1..MaxNameLen},
     ending \in {<<>>, <<".", "t", "t", "p">>, ScannedSuffix}}

(* ---------------------------------------------------------------------- *)
(* State                                                                   *)
(* ---------------------------------------------------------------------- *)
VARIABLES
  output_given,      \* the output_filename argument as the user gave it
  output_filename,   \* the local output_filename (rebound at line 90)
  motive_filename,
  nomeancenter,
  env,               \* what the tracker and the reconstruction may deliver
  pc,                \* where scan_arena stands
  error,             \* the exception that ended the run, "" when none
  initialized,       \* motive.initialize() was called
  loaded_project,    \* <<name>> once motive.load_project(name) was called
  rigid_bodies,      \* names of the rigid bodies of the loaded project
  rotation,          \* rigid_bodies[body].rotation
  location,          \* rigid_bodies[body].location
  cams,              \* motive.get_cams()
  cam_settings,
  frame_rate_old,
  el,                \* the reset loop's counter
  n_reset_orientation,
  n_reset_pivot,     \* calls of reset_pivot_offset so far
  n_set_location,    \* assignments to arena.location so far
  set_target,        \* <<the value last assigned to arena.location>>
  window,            \* "none", "open" or "closed"
  cam_index,         \* camera positions consumed from cam_positions
  camera_position,   \* scene.camera.position, as the index of the position
  scheduled,         \* the clock's scheduled callbacks, in order
  tick_items,        \* callbacks the running tick has still to call
  marker_pos,
  points,
  vertices,
  normals,
  face_indices,
  tri_vertices,      \* the vertex array as face_index returned it
  bound,             \* the array object each name is bound to, 0 when none
  vertmean,
  attempt,
  matched,           \* some attempt's location check succeeded
  out_file,          \* <<the file written>>, empty before
  saved_project      \* <<the name given to motive.save_project>>

inputs == <<output_given, motive_filename, nomeancenter, env>>
motive == <<initialized, loaded_project, rigid_bodies, rotation, location, cams>>
calls == <<n_reset_orientation, n_reset_pivot, n_set_location, set_target>>
saved_cams == <<cam_settings, frame_rate_old>>
win == <<window, cam_index, camera_position, scheduled, tick_items, marker_pos>>
meshv == <<points, vertices, normals, face_indices, tri_vertices, bound>>
align == <<vertmean, attempt, matched>>
outputs == <<out_file, saved_project>>
vars ==
  <<inputs, output_filename, pc, error, motive, calls, saved_cams, el, win,
    meshv, align, outputs>>

Body == "arena"
NumPositions == LinspaceN - 1

\* The array objects, numbered in the order of their creation, that the
\* names points, vertices, normals and face_indices are bound to.
Unbound ==
  [created |-> 0, points |-> 0, vertices |-> 0, normals |-> 0,
   face_indices |-> 0]

\* line 122: np.array(window.marker_pos) is a new array
AfterReadPoints(b) ==
  [b EXCEPT !.created = @ + 1, !.points = b.created + 1]

\* lines 133-134: meshify_arena returns two new arrays and face_index two;
\* vertices is bound again
AfterFaceIndex(b) ==
  [b EXCEPT !.created = @ + 4, !.normals = b.created + 2,
            !.vertices = b.created + 3, !.face_indices = b.created + 4]

\* line 135: fan_triangulate returns a new array
AfterTriangulate(b) ==
  [b EXCEPT !.created = @ + 1, !.face_indices = b.created + 1]

\* lines 133-135
AfterMeshify(b) == AfterTriangulate(AfterFaceIndex(b))

BeforeRun(names, envs, flags) ==
  /\ output_given \in names
  /\ output_filename = output_given
  /\ motive_filename = ProjectName
  /\ nomeancenter \in flags
  /\ env \in envs
  /\ pc = "resolve_name"
  /\ error = ""
  /\ initialized = FALSE
  /\ loaded_project = <<>>
  /\ rigid_bodies = {}
  /\ rotation = Zero3
  /\ location = Zero3
  /\ cams = <<>>
  /\ cam_settings = <<>>
  /\ frame_rate_old = "unset"
  /\ el = 0
  /\ n_reset_orientation = 0
  /\ n_reset_pivot = 0
  /\ n_set_location = 0
  /\ set_target = <<>>
  /\ window = "none"
  /\ cam_index = 0
  /\ camera_position = 0
  /\ scheduled = <<>>
  /\ tick_items = <<>>
  /\ marker_pos = <<>>
  /\ points = Arr(<<>>)
  /\ vertices = Arr(<<>>)
  /\ normals = <<>>
  /\ face_indices = <<>>
  /\ tri_vertices = Arr(<<>>)
  /\ bound = Unbound
  /\ vertmean = Zero3
  /\ attempt = 0
  /\ matched = FALSE
  /\ out_file = <<>>
  /\ saved_project = <<>>

ScanEnv ==
  [batches |-> 0..MaxMarkers, meshes |-> "orphan",
   pattern |-> Pattern]
FullFrameEnv ==
  [batches |-> {MaxMarkers}, meshes |-> "sample",
   pattern |-> Pattern]

Init == BeforeRun(SampleNames, {ScanEnv}, BOOLEAN)

\* Every name up to MaxNameLen; the pivot loop is walked for the sample
\* names only.
InitNames ==
  \/ BeforeRun(AllNames, {FullFrameEnv}, {TRUE})
  \/ BeforeRun(SampleNames, {FullFrameEnv}, {FALSE})

(* ---------------------------------------------------------------------- *)
(* scan_arena, up to the scan                                              *)
(* ---------------------------------------------------------------------- *)
Fail(why) ==
  /\ pc' = "failed"
  /\ error' = why

\* line 90
ResolveOutputName ==
  /\ pc = "resolve_name"
  /\ output_filename' = ResolveName(output_filename)
  /\ pc' = "check_ext"
  /\ UNCHANGED <<inputs, error, motive, calls, saved_cams, el, win, meshv,
                 align, outputs>>

\* line 91 without its assertion
CheckExtension_Skipped ==
  /\ pc = "check_ext"
  /\ pc' = "load"
  /\ UNCHANGED <<inputs, output_filename, error, motive, calls, saved_cams,
                 el, win, meshv, align, outputs>>

\* line 91
CheckExtension ==
  /\ pc = "check_ext"
  /\ IF ExtensionOk(output_filename)
     THEN pc' = "load" /\ error' = error
     ELSE Fail("AssertionError: output filename")
  /\ UNCHANGED <<inputs, output_filename, motive, calls, saved_cams, el, win,
                 meshv, align, outputs>>

\* lines 94-96: the project brings its rigid bodies and cameras
LoadProject ==
  /\ pc = "load"
  /\ initialized' = TRUE
  /\ loaded_project' = <<motive_filename>>
  /\ rigid_bodies' \in ProjectBodies
  /\ rotation' \in ProjectRotations
  /\ location' \in ProjectLocations
  /\ cams' = [i \in 1..NumCams |-> ProjectCam(i)]
  /\ pc' = "get_cams"
  /\ UNCHANGED <<inputs, output_filename, error, calls, saved_cams, el, win,
                 meshv, align, outputs>>

\* lines 99-100
GetCamSettings ==
  /\ pc = "get_cams"
  /\ cam_settings' = [i \in 1..Len(cams) |-> cams[i].settings]
  /\ frame_rate_old' = cams[1].frame_rate
  /\ pc' = "vislight"
  /\ UNCHANGED <<inputs, output_filename, error, motive, calls, el, win,
                 meshv, align, outputs>>

\* hardware.motive_camera_vislight_configure
VislightCam(cam) ==
  [cam EXCEPT !.settings = "vislight", !.frame_rate = "vislight_rate",
              !.image_gain = "vislight_gain", !.filter_switch = FALSE]

\* lines 101-102
ConfigureVislight ==
  /\ pc = "vislight"
  /\ cams' = [i \in 1..Len(cams) |-> VislightCam(cams[i])]
  /\ pc' = "get_body"
  /\ UNCHANGED <<inputs, output_filename, error, initialized, loaded_project,
                 rigid_bodies, rotation, location, calls, saved_cams, el, win,
                 meshv, align, outputs>>

\* lines 105-106
GetRigidBodies ==
  /\ pc = "get_body"
  /\ IF Body \in rigid_bodies
     THEN pc' = "reset" /\ error' = error
     ELSE Fail("AssertionError: rigid body not found")
  /\ el' = 0
  /\ UNCHANGED <<inputs, output_filename, motive, calls, saved_cams, win,
                 meshv, align, outputs>>

\* reset_orientation / reset_pivot_offset: Motive applies a reset on a later
\* update, so the value read next is the reset one or the one before.
AfterResetOrientation(rot) == {Zero3, rot}
AfterResetPivot(loc) == {MarkerMean, loc}

\* lines 109-112, one cycle
ResetBody ==
  /\ pc = "reset"
  /\ el < ResetCycles
  /\ rotation' \in AfterResetOrientation(rotation)
  /\ location' \in AfterResetPivot(location)
  /\ n_reset_orientation' = n_reset_orientation + 1
  /\ n_reset_pivot' = n_reset_pivot + 1
  /\ el' = el + 1
  /\ pc' = IF el + 1 = ResetCycles THEN "check_reset" ELSE "reset"
  /\ UNCHANGED <<inputs, output_filename, error, initialized, loaded_project,
                 rigid_bodies, cams, n_set_location, set_target, saved_cams,
                 win, meshv, align, outputs>>

\* lines 113-115 without the assertion of line 114
CheckReset_OrientationOnly ==
  /\ pc = "check_reset"
  /\ IF ~AllClose(rotation, Zero3, DefaultRtolInv)
     THEN Fail("AssertionError: orientation didn't reset")
     ELSE pc' = "open_window" /\ error' = error
  /\ UNCHANGED <<inputs, output_filename, motive, calls, saved_cams, el, win,
                 meshv, align, outputs>>

\* lines 113-115
CheckReset ==
  /\ pc = "check_reset"
  /\ IF ~AllClose(rotation, Zero3, DefaultRtolInv)
     THEN Fail("AssertionError: orientation didn't reset")
     ELSE IF ~AllClose(location, MarkerMean, DefaultRtolInv)
          THEN Fail("AssertionError: pivot didn't reset")
          ELSE pc' = "open_window" /\ error' = error
  /\ UNCHANGED <<inputs, output_filename, motive, calls, saved_cams, el, win,
                 meshv, align, outputs>>

(* ---------------------------------------------------------------------- *)
(* GridScanWindow and the event loop                                       *)
(* ---------------------------------------------------------------------- *)
\* lines 118-120 and GridScanWindow.__init__
OpenWindow ==
  /\ pc = "open_window"
  /\ window' = "open"
  /\ cam_index' = 0
  /\ camera_position' = 0
  /\ marker_pos' = <<>>
  /\ scheduled' = <<"detect_projection_point", "move_camera">>
  /\ tick_items' = <<>>
  /\ pc' = "run"
  /\ UNCHANGED <<inputs, output_filename, error, motive, calls, saved_cams,
                 el, meshv, align, outputs>>

\* line 121: the clock's tick takes the scheduled callbacks in order
Tick ==
  /\ pc = "run"
  /\ window = "open"
  /\ tick_items = <<>>
  /\ tick_items' = scheduled
  /\ UNCHANGED <<inputs, output_filename, pc, error, motive, calls,
                 saved_cams, el, window, cam_index, camera_position,
                 scheduled, marker_pos, meshv, align, outputs>>

\* lines 67-77 with line 77 as an assignment: marker_pos = markers
detect_projection_point_Overwrites ==
  /\ pc = "run"
  /\ tick_items # <<>>
  /\ Head(tick_items) = "detect_projection_point"
  /\ \E n \in env.batches :
       marker_pos' = Stream(env.pattern, Len(marker_pos), n)
  /\ tick_items' = Tail(tick_items)
  /\ UNCHANGED <<inputs, output_filename, pc, error, motive, calls,
                 saved_cams, el, window, cam_index, camera_position,
                 scheduled, meshv, align, outputs>>

\* lines 67-77
detect_projection_point ==
  /\ pc = "run"
  /\ tick_items # <<>>
  /\ Head(tick_items) = "detect_projection_point"
  /\ \E n \in env.batches :
       marker_pos' = marker_pos \o Stream(env.pattern, Len(marker_pos), n)
  /\ tick_items' = Tail(tick_items)
  /\ UNCHANGED <<inputs, output_filename, pc, error, motive, calls,
                 saved_cams, el, window, cam_index, camera_position,
                 scheduled, meshv, align, outputs>>

Unschedule(items, f) == SelectSeq(items, LAMBDA g : g # f)

\* lines 52-59 without line 59: the positions run out and nothing closes
move_camera_NoClose ==
  /\ pc = "run"
  /\ tick_items # <<>>
  /\ Head(tick_items) = "move_camera"
  /\ IF cam_index < NumPositions
     THEN /\ camera_position' = cam_index + 1
          /\ cam_index' = cam_index + 1
          /\ UNCHANGED <<scheduled, window>>
     ELSE /\ scheduled' = Unschedule(scheduled, "detect_projection_point")
          /\ UNCHANGED <<camera_position, cam_index, window>>
  /\ tick_items' = Tail(tick_items)
  /\ UNCHANGED <<inputs, output_filename, pc, error, motive, calls,
                 saved_cams, el, marker_pos, meshv, align, outputs>>

\* lines 52-59
move_camera ==
  /\ pc = "run"
  /\ tick_items # <<>>
  /\ Head(tick_items) = "move_camera"
  /\ IF cam_index < NumPositions
     THEN /\ camera_position' = cam_index + 1
          /\ cam_index' = cam_index + 1
          /\ UNCHANGED <<scheduled, window>>
     ELSE /\ scheduled' = Unschedule(scheduled, "detect_projection_point")
          /\ window' = "closed"
          /\ UNCHANGED <<camera_position, cam_index>>
  /\ tick_items' = Tail(tick_items)
  /\ UNCHANGED <<inputs, output_filename, pc, error, motive, calls,
                 saved_cams, el, marker_pos, meshv, align, outputs>>

\* line 121: pyglet.app.run() returns once the window is closed
AppRunReturns ==
  /\ pc = "run"
  /\ window = "closed"
  /\ tick_items = <<>>
  /\ pc' = "read_points"
  /\ UNCHANGED <<inputs, output_filename, error, motive, calls, saved_cams,
                 el, win, meshv, align, outputs>>

(* ---------------------------------------------------------------------- *)
(* scan_arena, from the collected points to the saved project              *)
(* ---------------------------------------------------------------------- *)
\* line 123 with >= in place of >
AtLeastMinPoints(n) == n >= MinPoints

\* line 123: the assertion's condition
EnoughPoints(n) == n > MinPoints

\* lines 122-124 without the assertion of line 123
ReadPoints_Unchecked ==
  /\ pc = "read_points"
  /\ points' = Arr(marker_pos)
  /\ bound' = AfterReadPoints(bound)
  /\ pc' = "meshify"
  /\ UNCHANGED <<inputs, output_filename, error, motive, calls, saved_cams,
                 el, win, vertices, normals, face_indices, tri_vertices,
                 align, outputs>>

\* lines 122-124
ReadPoints ==
  /\ pc = "read_points"
  /\ points' = Arr(marker_pos)
  /\ bound' = AfterReadPoints(bound)
  /\ IF EnoughPoints(Len(marker_pos))
     THEN pc' = "meshify" /\ error' = error
     ELSE Fail("AssertionError: not enough points")
  /\ UNCHANGED <<inputs, output_filename, motive, calls, saved_cams, el, win,
                 vertices, normals, face_indices, tri_vertices, align,
                 outputs>>

\* lines 133-134
Meshify ==
  /\ pc = "meshify"
  /\ \E m \in MeshesOf(env.meshes) :
       /\ vertices' = Arr(m.vertices)
       /\ tri_vertices' = Arr(m.vertices)
       /\ normals' = m.normals
       /\ face_indices' = m.faces
  /\ bound' = AfterFaceIndex(bound)
  /\ pc' = "triangulate"
  /\ UNCHANGED <<inputs, output_filename, error, motive, calls, saved_cams,
                 el, win, points, align, outputs>>

\* line 135
Triangulate ==
  /\ pc = "triangulate"
  /\ IF Triangulable(face_indices)
     THEN /\ face_indices' = fan_triangulate(face_indices)
          /\ bound' = AfterTriangulate(bound)
          /\ pc' = "restore_cams"
          /\ error' = error
     ELSE /\ Fail("ValueError: face with fewer than 3 vertices")
          /\ UNCHANGED <<face_indices, bound>>
  /\ UNCHANGED <<inputs, output_filename, motive, calls, saved_cams, el, win,
                 points, vertices, normals, tri_vertices, align, outputs>>

\* lines 142-145, one camera: line 141 left out
RestoredCam_NoSettings(cam, setting, rate) ==
  [cam EXCEPT !.image_gain = "1", !.frame_rate = rate,
              !.filter_switch = IF cam.name = "Prime 13" THEN TRUE ELSE @]

\* lines 141-145, one camera
RestoredCam(cam, setting, rate) ==
  [cam EXCEPT !.settings = setting, !.image_gain = "1", !.frame_rate = rate,
              !.filter_switch = IF cam.name = "Prime 13" THEN TRUE ELSE @]

\* lines 140-146
RestoreCams ==
  /\ pc = "restore_cams"
  /\ cams' = [i \in 1..Len(cams) |->
                RestoredCam(cams[i], cam_settings[i], frame_rate_old)]
  /\ pc' = "meancenter"
  /\ UNCHANGED <<inputs, output_filename, error, initialized, loaded_project,
                 rigid_bodies, rotation, location, calls, saved_cams, el, win,
                 meshv, align, outputs>>

\* line 150 with the flag ignored
AlwaysMeanCenter == TRUE

\* line 150: whether the mean-centering block runs
RunsMeanCenter == ~nomeancenter

\* lines 150-160 without line 158
MeanCenter_VerticesOnly ==
  /\ pc = "meancenter"
  /\ ~nomeancenter
  /\ vertmean' = MeanOverFaces(vertices, face_indices)
  /\ vertices' = Subtract(vertices, vertmean')
  /\ attempt' = 0
  /\ pc' = "attempt_reset"
  /\ UNCHANGED <<inputs, output_filename, error, motive, calls, saved_cams,
                 el, win, points, normals, face_indices, tri_vertices,
                 bound, matched, outputs>>

\* lines 150-160 with the normals taken along: normals -= vertmean as well
MeanCenter_NormalsToo ==
  /\ pc = "meancenter"
  /\ ~nomeancenter
  /\ vertmean' = MeanOverFaces(vertices, face_indices)
  /\ vertices' = Subtract(vertices, vertmean')
  /\ points' = Subtract(points, vertmean')
  /\ normals' = [i \in 1..Len(normals) |->
                   VSub(VScale(vertmean'.den, normals[i]), vertmean'.v)]
  /\ attempt' = 0
  /\ pc' = "attempt_reset"
  /\ UNCHANGED <<inputs, output_filename, error, motive, calls, saved_cams,
                 el, win, face_indices, tri_vertices, bound, matched,
                 outputs>>

\* lines 150-160; the two -= of lines 157-158 change the arrays that
\* vertices and points are bound to and bind no new one
MeanCenter ==
  /\ pc = "meancenter"
  /\ RunsMeanCenter
  /\ vertmean' = MeanOverFaces(vertices, face_indices)
  /\ vertices' = Subtract(vertices, vertmean')
  /\ points' = Subtract(points, vertmean')
  /\ attempt' = 0
  /\ pc' = "attempt_reset"
  /\ UNCHANGED <<inputs, output_filename, error, motive, calls, saved_cams,
                 el, win, normals, face_indices, tri_vertices, bound,
                 matched, outputs>>

\* line 150, the flag set
SkipMeanCenter ==
  /\ pc = "meancenter"
  /\ ~RunsMeanCenter
  /\ pc' = "write"
  /\ UNCHANGED <<inputs, output_filename, error, motive, calls, saved_cams,
                 el, win, meshv, align, outputs>>

\* line 161 as a loop with no cap
NoAttemptCap == TRUE

\* line 161: range(300) has another attempt to give
HasAttempt == attempt < MaxAttempts

\* lines 161-163
AttemptReset ==
  /\ pc = "attempt_reset"
  /\ HasAttempt
  /\ location' \in AfterResetPivot(location)
  /\ n_reset_pivot' = n_reset_pivot + 1
  /\ pc' = "attempt_set"
  /\ UNCHANGED <<inputs, output_filename, error, initialized, loaded_project,
                 rigid_bodies, rotation, cams, n_reset_orientation,
                 n_set_location, set_target, saved_cams, el, win, meshv,
                 align, outputs>>

\* line 164
AttemptSet ==
  /\ pc = "attempt_set"
  /\ location' \in ReportedAfterSet(vertmean, location)
  /\ n_set_location' = n_set_location + 1
  /\ set_target' = <<vertmean>>
  /\ pc' = "attempt_poll"
  /\ UNCHANGED <<inputs, output_filename, error, initialized, loaded_project,
                 rigid_bodies, rotation, cams, n_reset_orientation,
                 n_reset_pivot, saved_cams, el, win, meshv, align, outputs>>

\* lines 165-166 without the break: a matching poll is noted, the loop goes on
AttemptPoll_NoBreak ==
  /\ pc = "attempt_poll"
  /\ matched' = (matched \/ AllClose(location, vertmean, PivotRtolInv))
  /\ attempt' = attempt + 1
  /\ pc' = "attempt_reset"
  /\ UNCHANGED <<inputs, output_filename, error, motive, calls, saved_cams,
                 el, win, meshv, vertmean, outputs>>

\* lines 165-166
AttemptPoll ==
  /\ pc = "attempt_poll"
  /\ IF AllClose(location, vertmean, PivotRtolInv)
     THEN /\ matched' = TRUE
          /\ pc' = "write"
          /\ UNCHANGED attempt
     ELSE /\ attempt' = attempt + 1
          /\ pc' = "attempt_reset"
          /\ UNCHANGED matched
  /\ UNCHANGED <<inputs, output_filename, error, motive, calls, saved_cams,
                 el, win, meshv, vertmean, outputs>>

\* the for loop without its else: the run goes on to line 175
LoopEndsWithoutRaise ==
  /\ pc = "attempt_reset"
  /\ ~HasAttempt
  /\ pc' = "write"
  /\ UNCHANGED <<inputs, output_filename, error, motive, calls, saved_cams,
                 el, win, meshv, align, outputs>>

\* lines 167-168: the for loop's else
RaiseNotConverged ==
  /\ pc = "attempt_reset"
  /\ ~HasAttempt
  /\ Fail("ValueError: Motive failed to properly shift pivot")
  /\ UNCHANGED <<inputs, output_filename, motive, calls, saved_cams, el, win,
                 meshv, align, outputs>>

\* lines 175-177 with the faces written 1-based, as an .obj file counts
WriteObj_OneBased ==
  /\ pc = "write"
  /\ out_file' = <<[name |-> output_filename, object |-> Body,
                    vertices |-> vertices, normals |-> normals,
                    faces |-> [i \in 1..Len(face_indices) |->
                                [k \in 1..Len(face_indices[i]) |->
                                   face_indices[i][k] + 1]]]>>
  /\ pc' = "save"
  /\ UNCHANGED <<inputs, output_filename, error, motive, calls, saved_cams,
                 el, win, meshv, align, saved_project>>

\* lines 175-177
WriteObj ==
  /\ pc = "write"
  /\ out_file' = <<[name |-> output_filename, object |-> Body,
                    vertices |-> vertices, normals |-> normals,
                    faces |-> face_indices]>>
  /\ pc' = "save"
  /\ UNCHANGED <<inputs, output_filename, error, motive, calls, saved_cams,
                 el, win, meshv, align, saved_project>>

\* line 189, the statement left as a comment: motive.save_project of the
\* name that was loaded
SaveProject_SameName ==
  /\ pc = "save"
  /\ saved_project' = Append(saved_project, motive_filename)
  /\ pc' = "done"
  /\ error' = error
  /\ UNCHANGED <<inputs, output_filename, motive, calls, saved_cams, el, win,
                 meshv, align, out_file>>

\* line 190.  motive_filename is what line 94's encode() returned: a str
\* under Python 2, where the name is built and the project saved; bytes
\* under Python 3, where bytes + str raises TypeError and save_project is
\* not called.
SaveProject ==
  /\ pc = "save"
  /\ \/ /\ saved_project' =
             Append(saved_project, splitext(motive_filename)[1] \o ScannedSuffix)
        /\ pc' = "done"
        /\ error' = error
     \/ /\ Fail("TypeError: can't concat str to bytes")
        /\ UNCHANGED saved_project
  /\ UNCHANGED <<inputs, output_filename, motive, calls, saved_cams, el, win,
                 meshv, align, out_file>>

Next ==
  \/ ResolveOutputName
  \/ CheckExtension
  \/ LoadProject
  \/ GetCamSettings
  \/ ConfigureVislight
  \/ GetRigidBodies
  \/ ResetBody
  \/ CheckReset
  \/ OpenWindow
  \/ Tick
  \/ detect_projection_point
  \/ move_camera
  \/ AppRunReturns
  \/ ReadPoints
  \/ Meshify
  \/ Triangulate
  \/ RestoreCams
  \/ MeanCenter
  \/ SkipMeanCenter
  \/ AttemptReset
  \/ AttemptSet
  \/ AttemptPoll
  \/ RaiseNotConverged
  \/ WriteObj
  \/ SaveProject

Spec == Init /\ [][Next]_vars
SpecNames == InitNames /\ [][Next]_vars

(* ---------------------------------------------------------------------- *)
(* The state in which scan_arena reaches line 150, for the checks of the   *)
(* mean-centering and of the pivot loop on their own                       *)
(* ---------------------------------------------------------------------- *)
PointClouds(pattern) ==
  {Stream(pattern, 0, n) :
     n \in (MinPoints + 1)..(MinPoints + 1 + MaxExtraPoints)}

AtMeanCenterOf(projects, kind, patterns, flags) ==
  /\ output_given = <<"o">>
  /\ output_filename = ResolveName(output_given)
  /\ motive_filename \in projects
  /\ nomeancenter \in flags
  /\ env \in {[batches |-> 0..MaxMarkers, meshes |-> kind, pattern |-> pt] :
                pt \in patterns}
  /\ pc = "meancenter"
  /\ error = ""
  /\ initialized = TRUE
  /\ loaded_project = <<motive_filename>>
  /\ rigid_bodies = {"arena", "wand"}
  /\ rotation = Zero3
  /\ location = MarkerMean
  /\ cams = [i \in 1..NumCams |->
               RestoredCam(VislightCam(ProjectCam(i)), "project",
                           "project_rate")]
  /\ cam_settings = [i \in 1..NumCams |-> "project"]
  /\ frame_rate_old = "project_rate"
  /\ el = ResetCycles
  /\ n_reset_orientation = ResetCycles
  /\ n_reset_pivot = ResetCycles
  /\ n_set_location = 0
  /\ set_target = <<>>
  /\ window = "closed"
  /\ cam_index = NumPositions
  /\ camera_position = NumPositions
  /\ scheduled = <<"move_camera">>
  /\ tick_items = <<>>
  /\ marker_pos \in PointClouds(env.pattern)
  /\ points = Arr(marker_pos)
  /\ \E m \in MeshesOf(kind) :
       /\ vertices = Arr(m.vertices)
       /\ tri_vertices = Arr(m.vertices)
       /\ normals = m.normals
       /\ face_indices = fan_triangulate(m.faces)
  /\ bound = AfterMeshify(AfterReadPoints(Unbound))
  /\ vertmean = Zero3
  /\ attempt = 0
  /\ matched = FALSE
  /\ out_file = <<>>
  /\ saved_project = <<>>

AtMeanCenter(kind, patterns, flags) ==
  AtMeanCenterOf({ProjectName}, kind, patterns, flags)

\* lines 154-158 applied to every mesh and point cloud of the bounds
InitCenter == AtMeanCenter("all", {Pattern}, {FALSE})
NextCenter == MeanCenter
SpecCenter == InitCenter /\ [][NextCenter]_vars

\* lines 150-190 from the sample meshes; scan_arena runs on as long as it
\* has a statement to run
InitAlign == AtMeanCenter("sample", Patterns, BOOLEAN)
NextAlign ==
  \/ MeanCenter
  \/ SkipMeanCenter
  \/ AttemptReset
  \/ AttemptSet
  \/ AttemptPoll
  \/ RaiseNotConverged
  \/ WriteObj
  \/ SaveProject
SpecAlign == InitAlign /\ [][NextAlign]_vars /\ WF_vars(NextAlign)

\* lines 150-190 with the mean-centering skipped, for every project name
InitSave == AtMeanCenterOf(ProjectNames, "orphan", {Pattern}, {TRUE})
NextSave ==
  \/ SkipMeanCenter
  \/ WriteObj
  \/ SaveProject
SpecSave == InitSave /\ [][NextSave]_vars

(* ---------------------------------------------------------------------- *)
(* The state in which scan_arena reaches line 135, for the check of the    *)
(* triangulation on its own                                                *)
(* ---------------------------------------------------------------------- *)
AtTriangulate(kind, flags) ==
  /\ output_given = <<"o">>
  /\ output_filename = ResolveName(output_given)
  /\ motive_filename = ProjectName
  /\ nomeancenter \in flags
  /\ env = [batches |-> 0..MaxMarkers, meshes |-> kind, pattern |-> Pattern]
  /\ pc = "triangulate"
  /\ error = ""
  /\ initialized = TRUE
  /\ loaded_project = <<motive_filename>>
  /\ rigid_bodies = {"arena", "wand"}
  /\ rotation = Zero3
  /\ location = MarkerMean
  /\ cams = [i \in 1..NumCams |-> VislightCam(ProjectCam(i))]
  /\ cam_settings = [i \in 1..NumCams |-> "project"]
  /\ frame_rate_old = "project_rate"
  /\ el = ResetCycles
  /\ n_reset_orientation = ResetCycles
  /\ n_reset_pivot = ResetCycles
  /\ n_set_location = 0
  /\ set_target = <<>>
  /\ window = "closed"
  /\ cam_index = NumPositions
  /\ camera_position = NumPositions
  /\ scheduled = <<"move_camera">>
  /\ tick_items = <<>>
  /\ marker_pos = Stream(Pattern, 0, MinPoints + 1)
  /\ points = Arr(marker_pos)
  /\ \E m \in MeshesOf(kind) :
       /\ vertices = Arr(m.vertices)
       /\ tri_vertices = Arr(m.vertices)
       /\ normals = m.normals
       /\ face_indices = m.faces
  /\ bound = AfterFaceIndex(AfterReadPoints(Unbound))
  /\ vertmean = Zero3
  /\ attempt = 0
  /\ matched = FALSE
  /\ out_file = <<>>
  /\ saved_project = <<>>

\* line 135 applied to every list of index loops of the bounds
InitTriangulate == AtTriangulate("loops", {FALSE})
NextTriangulate == Triangulate
SpecTriangulate == InitTriangulate /\ [][NextTriangulate]_vars

\* lines 135-190 from the meshes of one face over four vertices
InitMesh == AtTriangulate("rotated", BOOLEAN)
NextMesh ==
  \/ Triangulate
  \/ RestoreCams
  \/ MeanCenter
  \/ SkipMeanCenter
  \/ AttemptReset
  \/ AttemptSet
  \/ AttemptPoll
  \/ RaiseNotConverged
  \/ WriteObj
  \/ SaveProject
SpecMesh == InitMesh /\ [][NextMesh]_vars

(* ---------------------------------------------------------------------- *)
(* The state in which scan_arena reaches line 118, for the checks of the   *)
(* window and its event loop on their own                                  *)
(* ---------------------------------------------------------------------- *)
AtOpenWindow(envs) ==
  /\ output_given = <<"o">>
  /\ output_filename = ResolveName(output_given)
  /\ motive_filename = ProjectName
  /\ nomeancenter \in BOOLEAN
  /\ env \in envs
  /\ pc = "open_window"
  /\ error = ""
  /\ initialized = TRUE
  /\ loaded_project = <<motive_filename>>
  /\ rigid_bodies = {"arena", "wand"}
  /\ rotation = Zero3
  /\ location = MarkerMean
  /\ cams = [i \in 1..NumCams |-> VislightCam(ProjectCam(i))]
  /\ cam_settings = [i \in 1..NumCams |-> "project"]
  /\ frame_rate_old = "project_rate"
  /\ el = ResetCycles
  /\ n_reset_orientation = ResetCycles
  /\ n_reset_pivot = ResetCycles
  /\ n_set_location = 0
  /\ set_target = <<>>
  /\ window = "none"
  /\ cam_index = 0
  /\ camera_position = 0
  /\ scheduled = <<>>
  /\ tick_items = <<>>
  /\ marker_pos = <<>>
  /\ points = Arr(<<>>)
  /\ vertices = Arr(<<>>)
  /\ normals = <<>>
  /\ face_indices = <<>>
  /\ tri_vertices = Arr(<<>>)
  /\ bound = Unbound
  /\ vertmean = Zero3
  /\ attempt = 0
  /\ matched = FALSE
  /\ out_file = <<>>
  /\ saved_project = <<>>

\* lines 118-124; the event loop fires the scheduled callbacks as long as
\* the window is open
InitScan == AtOpenWindow({ScanEnv})
NextScan ==
  \/ OpenWindow
  \/ Tick
  \/ detect_projection_point
  \/ move_camera
  \/ AppRunReturns
  \/ ReadPoints
SpecScan == InitScan /\ [][NextScan]_vars /\ WF_vars(NextScan)

(* ---------------------------------------------------------------------- *)
(* Claims                                                                  *)
(* ---------------------------------------------------------------------- *)
NotConverged == "ValueError: Motive failed to properly shift pivot"
BadOutputName == "AssertionError: output filename"
TooFewPoints == "AssertionError: not enough points"
Degenerate == "ValueError: face with fewer than 3 vertices"

Exported == out_file # <<>> \/ saved_project # <<>>

\* C1: the mesh file is written and the project saved only if mean-centering
\* was disabled or an attempt's location check succeeded, the body then
\* reporting a location within the tolerance of the target; a run whose 300
\* attempts all miss ends in the ValueError with nothing exported.
C1_ExportOnlyIfAligned ==
  /\ Exported =>
       \/ nomeancenter
       \/ matched /\ AllClose(location, vertmean, PivotRtolInv)
  /\ error = NotConverged =>
       /\ pc = "failed"
       /\ ~nomeancenter /\ ~matched /\ attempt = MaxAttempts
       /\ ~Exported

C1_Witness ==
  /\ error = NotConverged
  /\ n_set_location = MaxAttempts
  /\ ~AllClose(location, vertmean, PivotRtolInv)
  /\ ~Exported

LoopPcs == {"attempt_reset", "attempt_set", "attempt_poll"}

\* C2: the pivot loop issues at most 300 set-location commands whatever the
\* body reports, and it always ends: by a matching poll, or by the ValueError
\* after exactly 300 attempts none of which matched.
C2_LoopBounded ==
  /\ [](/\ n_set_location <= MaxAttempts
        /\ attempt <= MaxAttempts
        /\ (matched => n_set_location = attempt + 1)
        /\ (error = NotConverged =>
              n_set_location = MaxAttempts /\ ~matched))
  /\ (pc \in LoopPcs ~> (matched \/ error = NotConverged))

C2_Witness ==
  /\ pc = "attempt_poll"
  /\ n_set_location = MaxAttempts
  /\ AllClose(location, vertmean, PivotRtolInv)

OtherExtension(name) == splitext(name)[2] \notin {<<>>, ObjExt}

NoAcquisition ==
  /\ ~initialized
  /\ loaded_project = <<>>
  /\ cams = <<>>
  /\ rigid_bodies = {}
  /\ n_reset_orientation = 0
  /\ n_reset_pivot = 0
  /\ window = "none"
  /\ marker_pos = <<>>

\* C3: a run given an output name with an extension other than '.obj' stops
\* at the assertion of line 91 with no Motive call made and no window opened;
\* in every run, Motive is initialized only after the extension check passed.
C3_ExtensionCheckedFirst ==
  /\ OtherExtension(output_given) =>
       /\ pc \in {"resolve_name", "check_ext", "failed"}
       /\ pc = "failed" => error = BadOutputName
       /\ NoAcquisition
       /\ ~Exported
  /\ ~NoAcquisition => ExtensionOk(output_filename)

C3_Witness ==
  /\ OtherExtension(output_given)
  /\ pc = "failed"
  /\ error = BadOutputName
  /\ NoAcquisition

NameChecked == pc \notin {"resolve_name", "check_ext"}

\* C4: the output name rule as claimed: a name with no extension gets '.obj'
\* appended and the run proceeds, a name with the extension '.obj' is used
\* unchanged, any other extension is the fatal error, and a file written has
\* a name ending in '.obj'.
C4_NameRule ==
  /\ NameChecked =>
       /\ splitext(output_given)[2] = <<>> =>
            output_filename = output_given \o ObjExt /\ error # BadOutputName
       /\ splitext(output_given)[2] = ObjExt =>
            output_filename = output_given /\ error # BadOutputName
       /\ OtherExtension(output_given) => error = BadOutputName
  /\ out_file # <<>> => EndsWith(out_file[1].name, ObjExt)

PastRead ==
  \/ pc \in {"meshify", "triangulate", "restore_cams", "meancenter", "write",
            "save", "done"}
  \/ pc \in LoopPcs
  \/ pc = "failed" /\ error \in {TooFewPoints, NotConverged, Degenerate}

\* C5 as claimed: 100 points pass the minimum-count check, 99 fail.
C5_Boundary100 ==
  PastRead =>
    /\ Len(marker_pos) = MinPoints => error # TooFewPoints
    /\ Len(marker_pos) = MinPoints - 1 => error = TooFewPoints

\* C5 (amended): the minimum-count check passes exactly when more than 100
\* points were collected: 101 points pass and go on to segmentation, 100
\* points (and 99) fail with the assertion error.
C5_Boundary101 ==
  PastRead =>
    /\ Len(marker_pos) = MinPoints + 1 => error # TooFewPoints
    /\ Len(marker_pos) = MinPoints => error = TooFewPoints /\ pc = "failed"
    /\ Len(marker_pos) = MinPoints - 1 => error = TooFewPoints /\ pc = "failed"
    /\ error = TooFewPoints <=> Len(marker_pos) <= MinPoints

C5_Witness ==
  /\ pc = "meshify"
  /\ Len(points.v) = MinPoints + 1

\* C6: a point cloud that fails the minimum-count check ends the run before
\* meshify_arena, face_index and fan_triangulate are called: no vertices,
\* normals or faces exist, no mesh file is written, no project is saved.
C6_NoSegmentationOnFewPoints ==
  /\ (PastRead /\ Len(marker_pos) <= MinPoints) =>
       /\ pc = "failed"
       /\ error = TooFewPoints
       /\ tri_vertices = Arr(<<>>)
       /\ vertices = Arr(<<>>)
       /\ normals = <<>>
       /\ face_indices = <<>>
       /\ ~Exported
  /\ tri_vertices # Arr(<<>>) => Len(marker_pos) > MinPoints

C6_Witness ==
  /\ pc = "failed"
  /\ error = TooFewPoints
  /\ Len(marker_pos) = MinPoints
  /\ points = Arr(marker_pos)

\* C7: with nomeancenter set, the vertices and points reach the export as
\* triangulation and acquisition left them and the body gets no
\* reset_pivot_offset and no location after the three reset cycles; with it
\* clear, the exported vertices and the points are the old ones less the
\* centroid over the faces, and the retry loop ran to a match first.
C7_ToggleControlsAlignment ==
  /\ nomeancenter => n_set_location = 0 /\ n_reset_pivot <= ResetCycles
  /\ out_file # <<>> =>
       IF nomeancenter
       THEN /\ out_file[1].vertices = tri_vertices
            /\ points = Arr(marker_pos)
            /\ n_reset_pivot = ResetCycles
            /\ attempt = 0 /\ ~matched
       ELSE /\ vertmean = MeanOverFaces(tri_vertices, face_indices)
            /\ out_file[1].vertices = Subtract(tri_vertices, vertmean)
            /\ points = Subtract(Arr(marker_pos), vertmean)
            /\ n_set_location >= 1
            /\ n_reset_pivot = ResetCycles + n_set_location
            /\ matched

C7_Witness ==
  /\ nomeancenter
  /\ out_file # <<>>
  /\ out_file[1].vertices = tri_vertices
  /\ Len(tri_vertices.v) > 0

Centered == pc = "attempt_reset" /\ attempt = 0

\* the vertex indices the triangles use
Referenced(tris) == {flatten(tris)[i] : i \in 1..Len(flatten(tris))}

\* two rational vectors [den, v] with the same value
SameVector(a, b) == \A k \in 1..3 : a.v[k] * b.den = b.v[k] * a.den

\* C8: after the mean-centering the mean of the vertex positions taken over
\* the indices of the face list is the origin: their sum is (0,0,0).
C8_CentroidAtOrigin ==
  Centered =>
    /\ vertices.den > 0
    /\ SumRows(vertices.v, flatten(face_indices)) = <<0, 0, 0>>

C8_Witness ==
  /\ Centered
  /\ vertmean.v # <<0, 0, 0>>
  /\ Referenced(face_indices) # 0..(Len(vertices.v) - 1)
  /\ \E i \in 1..Len(vertices.v) : vertices.v[i] # <<0, 0, 0>>

\* the vertex arrays that differ from verts only where no face refers
Orphans(verts, tris) ==
  {i \in 1..Len(verts) : (i - 1) \notin Referenced(tris)}
OrphanVariants(verts, tris) ==
  {[i \in 1..Len(verts) |->
      IF i \in Orphans(verts, tris) THEN f[i] ELSE verts[i]] :
     f \in [Orphans(verts, tris) -> PointVals]}

\* C9: the centroid, which is the target sent to the body, is the same for
\* every vertex array that differs from the mesh's only in the positions of
\* vertices no face refers to.
C9_CentroidIgnoresOrphans ==
  Centered =>
    \A alt \in OrphanVariants(tri_vertices.v, face_indices) :
      SameVector(MeanOverFaces(Arr(alt), face_indices), vertmean)

C9_Witness ==
  /\ Centered
  /\ \E alt \in OrphanVariants(tri_vertices.v, face_indices) :
       /\ alt # tri_vertices.v
       /\ SameVector(MeanOverFaces(Arr(alt), face_indices), vertmean)
       /\ ~SameVector(MeanOverVertices(Arr(alt), face_indices),
                      MeanOverVertices(tri_vertices, face_indices))

\* the row a / da became a2 / da2 by losing the vector m
ShiftedBy(a, da, a2, da2, m) ==
  \A k \in 1..3 : (a[k] * da2 - a2[k] * da) * m.den = m.v[k] * da * da2

\* the difference of the rows a / da and b / db is that of a2 / da2, b2 / db2
SameDifference(a, da, b, db, a2, da2, b2, db2) ==
  \A k \in 1..3 :
    (a[k] * db - b[k] * da) * da2 * db2 = (a2[k] * db2 - b2[k] * da2) * da * db

\* C10: the mean-centering step keeps the number and the order of the
\* vertices, points and faces and takes the same vector, the centroid, from
\* every vertex and every point: every vertex and every point keeps its
\* difference to the first vertex, and every point its difference to the
\* point before it (so, by subtraction, any two rows keep theirs).
C10_PureTranslation ==
  [][(pc = "meancenter" /\ pc' = "attempt_reset") =>
       /\ Len(vertices'.v) = Len(vertices.v)
       /\ Len(points'.v) = Len(points.v)
       /\ face_indices' = face_indices
       /\ normals' = normals
       /\ \A i \in 1..Len(vertices.v) :
            /\ ShiftedBy(vertices.v[i], vertices.den,
                         vertices'.v[i], vertices'.den, vertmean')
            /\ SameDifference(vertices.v[i], vertices.den,
                              vertices.v[1], vertices.den,
                              vertices'.v[i], vertices'.den,
                              vertices'.v[1], vertices'.den)
       /\ \A j \in 1..Len(points.v) :
            /\ ShiftedBy(points.v[j], points.den,
                         points'.v[j], points'.den, vertmean')
            /\ SameDifference(points.v[j], points.den,
                              vertices.v[1], vertices.den,
                              points'.v[j], points'.den,
                              vertices'.v[1], vertices'.den)
            /\ j > 1 =>
                 SameDifference(points.v[j], points.den,
                                points.v[j - 1], points.den,
                                points'.v[j], points'.den,
                                points'.v[j - 1], points'.den)]_vars

C10_Witness ==
  /\ Centered
  /\ vertmean.v # <<0, 0, 0>>
  /\ points # Arr(marker_pos)
  /\ vertices # tri_vertices
  /\ \E i, j \in 1..Len(points.v) : points.v[i] # points.v[j]

\* a name keeps the array it is bound to (no new array was bound to it)
SameArray(name) == bound[name] # 0 /\ bound'[name] = bound[name]

\* C11 as claimed: an array, once produced, is never modified: as long as a
\* name stays bound to the same array, the array's contents stay the same.
C11_Immutable ==
  [][/\ SameArray("points") => points' = points
     /\ SameArray("vertices") => vertices' = vertices
     /\ SameArray("normals") => normals' = normals
     /\ SameArray("face_indices") => face_indices' = face_indices]_vars

\* C11 (amended): the only statements that modify an array after it was
\* produced are the two -= of the mean-centering step, which runs only with
\* nomeancenter clear and takes the centroid from every row of the vertices
\* and of the points, in place; the normals and the triangle list are never
\* modified, and no other step modifies the points or the vertices.
C11_OnlyMeanCenterMutates ==
  [][/\ SameArray("normals") => normals' = normals
     /\ SameArray("face_indices") => face_indices' = face_indices
     /\ (SameArray("points") /\ points' # points) =>
          /\ pc = "meancenter" /\ ~nomeancenter
          /\ points' = Subtract(points, vertmean')
     /\ (SameArray("vertices") /\ vertices' # vertices) =>
          /\ pc = "meancenter" /\ ~nomeancenter
          /\ vertices' = Subtract(vertices, vertmean')
     /\ (pc = "meancenter" /\ ~nomeancenter) => bound' = bound]_vars

C11_Witness ==
  /\ pc = "done"
  /\ ~nomeancenter
  /\ bound.points = 1
  /\ points # Arr(marker_pos)
  /\ vertices # tri_vertices
  /\ normals # <<>>

\* a step that is a call of the callback f by the clock
Called(f) ==
  /\ tick_items # <<>>
  /\ Head(tick_items) = f
  /\ tick_items' = Tail(tick_items)

RECURSIVE TrianglesBefore(_, _)
TrianglesBefore(faces, j) ==
  IF j = 1 THEN 0
  ELSE TrianglesBefore(faces, j - 1) + (Len(faces[j - 1]) - 2)

\* C13: the triangulation step turns every face of k >= 3 indices into
\* exactly k-2 triangles, the i-th being (v0, vi, vi+1), in the order of the
\* faces; if a face has fewer than 3 indices the step fails and emits no
\* triangle.
C13_FanOrFail ==
  [][pc = "triangulate" =>
       IF \E j \in 1..Len(face_indices) : Len(face_indices[j]) < 3
       THEN /\ pc' = "failed"
            /\ error' = Degenerate
            /\ face_indices' = face_indices
       ELSE /\ pc' = "restore_cams"
            /\ Len(face_indices') =
                 TrianglesBefore(face_indices, Len(face_indices) + 1)
            /\ \A j \in 1..Len(face_indices) :
                 \A i \in 1..(Len(face_indices[j]) - 2) :
                   face_indices'[TrianglesBefore(face_indices, j) + i] =
                     <<face_indices[j][1], face_indices[j][i + 1],
                       face_indices[j][i + 2]>>]_vars

C13_Witness ==
  /\ pc = "restore_cams"
  /\ Len(face_indices) = MaxVerts - 2
  /\ \A i \in 1..Len(face_indices) : face_indices[i][1] = face_indices[1][1]
  /\ face_indices[1][1] # 0

\* every index of the faces is an index into the n vertices
IndicesWithin(faces, n) ==
  \A j \in 1..Len(faces) :
    \A k \in 1..Len(faces[j]) : faces[j][k] >= 0 /\ faces[j][k] < n

Elements(q) == {q[k] : k \in 1..Len(q)}

C15_AttemptOrder ==
  [][/\ pc \in LoopPcs =>
          /\ ~matched
          /\ vertmean = MeanOverFaces(tri_vertices, face_indices)
          /\ vertmean' = vertmean
          /\ n_set_location =
               attempt + (IF pc = "attempt_poll" THEN 1 ELSE 0)
          /\ n_reset_pivot =
               ResetCycles + attempt + (IF pc = "attempt_reset" THEN 0 ELSE 1)
     /\ pc = "attempt_reset" =>
          \/ /\ pc' = "attempt_set"
             /\ n_reset_pivot' = n_reset_pivot + 1
             /\ n_set_location' = n_set_location
          \/ pc' = "failed" /\ attempt = MaxAttempts /\ calls' = calls
     /\ pc = "attempt_set" =>
          /\ pc' = "attempt_poll"
          /\ n_set_location' = n_set_location + 1
          /\ n_reset_pivot' = n_reset_pivot
          /\ set_target' = <<MeanOverFaces(tri_vertices, face_indices)>>
     /\ pc = "attempt_poll" =>
          /\ calls' = calls /\ location' = location
          /\ IF AllClose(location, set_target[1], PivotRtolInv)
             THEN matched' /\ pc' = "write" /\ n_set_location = attempt + 1
             ELSE ~matched' /\ pc' = "attempt_reset" /\ attempt' = attempt + 1
     /\ matched => matched' /\ calls' = calls /\ location' = location]_vars

C15_Witness ==
  /\ pc = "done"
  /\ matched
  /\ n_set_location = 3
  /\ attempt = 2
  /\ set_target = <<vertmean>>
  /\ location # vertmean

BodyNotFound == "AssertionError: rigid body not found"
OrientationNotReset == "AssertionError: orientation didn't reset"
PivotNotReset == "AssertionError: pivot didn't reset"
ResetErrors == {BodyNotFound, OrientationNotReset, PivotNotReset}

\* the body is in the project and reports the reset state, as np.isclose
\* with its default tolerances finds it
VerifiedReset ==
  /\ Body \in rigid_bodies
  /\ AllClose(rotation, Zero3, DefaultRtolInv)
  /\ AllClose(location, MarkerMean, DefaultRtolInv)

\* C16: the window exists only in runs in which the named body is in the
\* loaded project and, after exactly three cycles of reset_orientation and
\* reset_pivot_offset, reported a zero rotation and the mean of its markers
\* as location; a run in which one of the three checks fails ends there,
\* with no window, no marker, no point and no file.
C16_ScanOnlyAfterReset ==
  /\ (pc = "open_window" \/ window # "none") =>
       /\ Body \in rigid_bodies
       /\ el = ResetCycles
       /\ n_reset_orientation = ResetCycles
       /\ n_reset_pivot >= ResetCycles
       /\ AllClose(rotation, Zero3, DefaultRtolInv)
  /\ pc \in {"open_window", "run", "read_points"} =>
       /\ VerifiedReset
       /\ n_reset_pivot = ResetCycles
       /\ n_set_location = 0
  /\ error \in ResetErrors =>
       /\ pc = "failed"
       /\ ~VerifiedReset
       /\ window = "none"
       /\ cam_index = 0
       /\ marker_pos = <<>>
       /\ points = Arr(<<>>)
       /\ ~Exported
  /\ error = BodyNotFound => n_reset_orientation = 0 /\ n_reset_pivot = 0
  /\ error \in {OrientationNotReset, PivotNotReset} =>
       n_reset_orientation = ResetCycles /\ n_reset_pivot = ResetCycles

C16_Witness ==
  /\ pc = "failed"
  /\ error = PivotNotReset
  /\ rotation = Zero3
  /\ location # MarkerMean
  /\ window = "none"

\* what lines 99-100 hold is what the project had set
CapturedFromProject ==
  /\ Len(cam_settings) = NumCams
  /\ \A i \in 1..NumCams : cam_settings[i] = ProjectCam(i).settings
  /\ frame_rate_old = ProjectCam(1).frame_rate

\* every camera has the captured settings and the old frame rate again
CamsRestored ==
  /\ Len(cams) = NumCams
  /\ \A i \in 1..NumCams :
       /\ cams[i].settings = cam_settings[i]
       /\ cams[i].frame_rate = frame_rate_old

\* C17: the settings of every camera and the frame rate are read while the
\* cameras still have the project's values, before the visible-light
\* configuration; the scan runs with that configuration; and when the first
\* pivot command of the alignment is issued, when the file is written and
\* when the project is saved, every camera has its captured settings and
\* the old frame rate again.
C17_CamerasRestoredBeforeSave ==
  /\ pc \notin {"resolve_name", "check_ext", "load", "get_cams", "failed"} =>
       CapturedFromProject
  /\ pc \in {"run", "read_points", "meshify", "triangulate"} =>
       \A i \in 1..NumCams : cams[i].settings = "vislight"
  /\ (\/ n_reset_pivot > ResetCycles
      \/ n_set_location > 0
      \/ out_file # <<>>
      \/ saved_project # <<>>
      \/ pc \in {"meancenter", "write", "save", "done"}) =>
       CapturedFromProject /\ CamsRestored

C17_Witness ==
  /\ saved_project # <<>>
  /\ n_set_location > 0
  /\ CamsRestored
  /\ \A i \in 1..NumCams : cams[i] # ProjectCam(i)

\* q is p with something added at its end
Extends(q, p) ==
  /\ Len(q) >= Len(p)
  /\ SubSeq(q, 1, Len(p)) = p

\* C18: a detect_projection_point call leaves the markers collected so far
\* where they are and adds the call's markers, as many as the tracker
\* reported, after them; nothing else changes marker_pos, move_camera in
\* particular; once the window is closed detection is unscheduled and not
\* called again, and the points scan_arena reads are the list as the last
\* detection left it.
C18_MarkersAppendOnly ==
  [][/\ Extends(marker_pos', marker_pos)
     /\ Called("detect_projection_point") =>
          /\ window = "open"
          /\ Len(marker_pos') - Len(marker_pos) \in env.batches
          /\ marker_pos' =
               marker_pos \o
                 Stream(env.pattern, Len(marker_pos),
                        Len(marker_pos') - Len(marker_pos))
     /\ marker_pos' # marker_pos => Called("detect_projection_point")
     /\ Called("move_camera") => marker_pos' = marker_pos
     /\ window = "closed" =>
          /\ marker_pos' = marker_pos
          /\ window' = "closed"
          /\ ~Called("detect_projection_point")
          /\ "detect_projection_point" \notin Elements(scheduled)
          /\ "detect_projection_point" \notin Elements(tick_items)
     /\ pc = "read_points" => points' = Arr(marker_pos)]_vars

C18_Witness ==
  /\ pc = "meshify"
  /\ window = "closed"
  /\ points = Arr(marker_pos)
  /\ Len(marker_pos) > MinPoints
  /\ Len(marker_pos) < NumPositions * MaxMarkers

\* name is loaded with its extension, if it has one, replaced by
\* '_scanned.ttp': what is cut off is empty or starts at a dot, holds no
\* other dot and no separator, and is all there is after the root
DerivedName(name, loaded) ==
  \E k \in 0..Len(loaded) :
    LET tail == SubSeq(loaded, k + 1, Len(loaded))
    IN  /\ name = SubSeq(loaded, 1, k) \o ScannedSuffix
        /\ tail = splitext(loaded)[2]
        /\ tail # <<>> => tail[1] = "."
        /\ \A i \in 2..Len(tail) : tail[i] \notin {".", "/"}

\* C19: motive.save_project is called at most once, when the mesh file has
\* been written, with the loaded project's name in which '_scanned.ttp'
\* stands for the extension, a name other than the loaded one; no step of
\* scan_arena follows it.
C19_SavedUnderNewName ==
  [][/\ Len(saved_project') <= 1
     /\ saved_project = <<>>
     /\ saved_project' # <<>> =>
          /\ pc = "save" /\ pc' = "done"
          /\ out_file # <<>> /\ out_file' = out_file
          /\ loaded_project = <<motive_filename>>
          /\ DerivedName(saved_project'[1], loaded_project[1])
          /\ EndsWith(saved_project'[1], ScannedSuffix)
          /\ saved_project'[1] # loaded_project[1]]_vars

C19_Witness ==
  /\ pc = "done"
  /\ Len(saved_project) = 1
  /\ out_file # <<>>
  /\ EndsWith(loaded_project[1], ScannedSuffix)
  /\ saved_project[1] # loaded_project[1]

====
